---- MODULE Spec2Model ----
(***************************************************************************)
(* Model of the two automation scripts git_operations.py and               *)
(* run_git_commands.py.  Each script is a straight-line sequence of        *)
(* statements; a statement that shells out draws the outcome of the child  *)
(* process (an exit code, or an exception raised by subprocess.run) from a *)
(* small set.  The filesystem is the set of paths that exist; it is only   *)
(* changed by the script's own makedirs/open calls.                        *)
(***************************************************************************)
EXTENDS Integers, Sequences, FiniteSets, TLC

\* Largest exit code a child process is modelled to return (0..MaxExit).
MaxExit == 2

\* Outcome of subprocess.run when the invocation itself raises.
RAISED == -1

\* Value of the script variable `result` before line 105 has run.
NoResult == -2

ExitCodes == 0..MaxExit

Outcomes == ExitCodes \cup {RAISED}

GO == "git_operations.py"

RGC == "run_git_commands.py"

REPO == "/Users/mistergrinvalds/Repos/personal/bash-profile"

BRANCH == "fix/automation-framework-compatibility"

CORE == ".automation/framework/core.sh"

AUTO == ".automation/auto"

PROFILEDIR == ".bash_profile.dir"

GITKEEP == ".bash_profile.dir/.gitkeep"

INITSH == "initialize.sh"

TOOLS == ".automation/modules/tools.sh"

MAKEFILE == "Makefile"

config_files == <<"CLAUDE.md", "package.json", "package-lock.json">>

\* Number of numbered commit steps of git_operations.py.
NumSteps == 6

Steps == 1..NumSteps

Range(s) == {s[i] : i \in 1..Len(s)}

\* Every path whose existence git_operations.py tests.
TestedPaths == {CORE, AUTO, PROFILEDIR, INITSH, TOOLS, MAKEFILE} \cup Range(config_files)

\* The path tested by the `if` of step k.
StepPath(k) ==
  CASE k = 1 -> CORE
    [] k = 2 -> AUTO
    [] k = 3 -> PROFILEDIR
    [] k = 4 -> INITSH
    [] k = 5 -> TOOLS
    [] k = 6 -> MAKEFILE

\* The argument of the `git add` of step k.
StepAddArg(k) == IF k = 3 THEN ".bash_profile.dir/" ELSE StepPath(k)

\* The first line of the commit message of step k.
StepMsg(k) ==
  CASE k = 1 -> "fix: update automation framework core.sh for bash compatibility"
    [] k = 2 -> "fix: replace associative arrays in auto script for POSIX compliance"
    [] k = 3 -> "feat: add missing .bash_profile.dir directory structure"
    [] k = 4 -> "feat: add --yes flag to initialize.sh for automated installation"
    [] k = 5 -> "feat: add yes-to-all support to automation tools module"
    [] k = 6 -> "feat: enhance Makefile with new automation targets"

\* The header line printed when step k runs.
StepHeader(k) ==
  CASE k = 1 -> "=== Commit 1: Bash compatibility fix ==="
    [] k = 2 -> "=== Commit 2: Fix associative array compatibility ==="
    [] k = 3 -> "=== Commit 3: Create bash profile directory ==="
    [] k = 4 -> "=== Commit 4: Add yes-to-all functionality ==="
    [] k = 5 -> "=== Commit 5: Update tools module ==="
    [] k = 6 -> "=== Commit 6: Add new make targets ==="

ConfigMsg == "chore: update project configuration files"

\* Commands: the shell command strings, as an operation and its arguments.
Cmd(op, arg) == [op |-> op, arg |-> arg]

NoCmd == Cmd("none", <<>>)

StatusCmd == Cmd("status", <<>>)

BranchCmd == Cmd("checkout", <<"-b", BRANCH>>)

FallbackCmd == Cmd("checkout", <<BRANCH>>)

ShowBranchCmd == Cmd("branch", <<>>)

AddCmd(k) == Cmd("add", <<StepAddArg(k)>>)

CommitCmd(k) == Cmd("commit", <<StepMsg(k)>>)

ConfigAddCmd(files) == Cmd("add", files)

DiffCmd == Cmd("diff", <<"--cached", "--quiet">>)

ConfigCommitCmd == Cmd("commit", <<ConfigMsg>>)

LogCmd == Cmd("log", <<"--oneline", "-10">>)

\* Lines printed by the scripts themselves.
StatusHeader == "=== Checking current git status ==="

BranchHeader == "=== Creating branch fix/automation-framework-compatibility ==="

BranchOK == "Branch created successfully!"

BranchFailed == "Failed to create branch. It might already exist."

ConfigHeader == "=== Checking for additional project config files ==="

FinalHeader == "=== Final git status ==="

ClosingLines ==
  << "=== Operation complete! ===",
     "Branch created and commits made successfully!",
     "You can now push with: git push -u origin fix/automation-framework-compatibility" >>

RgcOpening == <<"Starting git operations for bash-profile repository", "Working directory: ">>

RgcClosingLines ==
  << "Git operations completed!",
     "Next steps:",
     "1. Add your files with: git add <files>",
     "2. Make commits with: git commit -m 'your message'",
     "3. Push with: git push -u origin fix/automation-framework-compatibility" >>

VARIABLES
  script,        \* which of the two scripts is running
  pc,            \* position in the script
  cwd,           \* process working directory
  fs,            \* set of paths that exist
  fs0,           \* the paths that existed when the run started
  step,          \* number of the commit step being executed
  cmds,          \* every command handed to subprocess.run so far, in order
  out,           \* lines printed by the script's own print statements
  files_to_add,  \* the script variable files_to_add
  result,        \* returncode of the script variable `result` (line 105)
  last,          \* the most recent runner call: command, outcome, return value
  prev,          \* the runner call before it
  fault          \* statement whose exception ended the run, "" if none

vars == <<script, pc, cwd, fs, fs0, step, cmds, out, files_to_add, result, last, prev, fault>>

NoCall == [cmd |-> NoCmd, code |-> 0, ret |-> FALSE, log |-> ""]

\* run_git_command: the value returned, the branch that logged, and whether
\* an exception leaves the function.
run_git_command_propagating(outcome) ==
  [ret |-> outcome = 0,
   log |-> "Command",
   propagates |-> outcome = RAISED]

run_git_command_truthy(outcome) ==
  [ret |-> outcome >= 0,
   log |-> IF outcome = RAISED THEN "Exception running" ELSE "Command",
   propagates |-> FALSE]

run_git_command(outcome) ==
  [ret |-> IF outcome = RAISED THEN FALSE ELSE outcome = 0,
   log |-> IF outcome = RAISED THEN "Exception running" ELSE "Command",
   propagates |-> FALSE]

\* execute_command of run_git_commands.py.
execute_command(outcome) ==
  [ret |-> IF outcome = RAISED THEN FALSE ELSE outcome = 0,
   log |-> IF outcome = RAISED THEN "Error executing command" ELSE "Return code",
   propagates |-> FALSE]

\* The condition of the `if` of step k.
StepGate_always(k, files) == TRUE

StepGate_exists(k, files) == StepPath(k) \in files

StepGate(k, files) ==
  IF k = 3 THEN StepPath(k) \notin files ELSE StepPath(k) \in files

\* files_to_add = [f for f in config_files if os.path.exists(f)]
ExistingOf(seq, files) == SelectSeq(seq, LAMBDA f : f \in files)

\* if result.returncode != 0
HasStagedChanges_zero(code) == code = 0

HasStagedChanges(code) == code # 0

\* The line printed by the if/else on the result of `git checkout -b`.
BranchMessage_always(ret) == BranchOK

BranchMessage(ret) == IF ret THEN BranchOK ELSE BranchFailed

\* Where control goes after `git checkout -b`.
AfterBranch_nofallback(ret) == "check"

AfterBranch(ret) == IF ret THEN "check" ELSE "fallback"

\* Where control goes after the fallback checkout (its result is discarded).
AfterFallback_gated(ret) == IF ret THEN "check" ELSE "cfg_check"

AfterFallback(ret) == "check"

\* The two runner calls inside a step, in the order of the source.
FirstCall_swapped(k) == CommitCmd(k)

FirstCall(k) == AddCmd(k)

SecondCall(k) == CommitCmd(k)

\* Where control goes when step k is over (run or skipped).
AfterStep(k) == IF k = NumSteps THEN "cfg_check" ELSE "check"

\* A runner call: the command is recorded, and either the runner returns
\* (control goes to `next`) or an exception leaves it and ends the run.
Invoke(cmd, outcome, r, next) ==
  /\ cmds' = Append(cmds, cmd)
  /\ prev' = last
  /\ last' = [cmd |-> cmd, code |-> outcome, ret |-> r.ret, log |-> r.log]
  /\ IF r.propagates
       THEN pc' = "crashed" /\ fault' = "runner"
       ELSE pc' = next /\ UNCHANGED fault

Init ==
  /\ script \in {GO, RGC}
  /\ pc = "chdir"
  /\ cwd = "start"
  /\ fs0 \in (IF script = GO THEN SUBSET TestedPaths ELSE {{}})
  /\ fs = fs0
  /\ step = 1
  /\ cmds = <<>>
  /\ out = <<>>
  /\ files_to_add = <<>>
  /\ result = NoResult
  /\ last = NoCall
  /\ prev = NoCall
  /\ fault = ""

\* git_operations.py line 6: os.chdir, outside any try.
Chdir ==
  /\ script = GO
  /\ pc = "chdir"
  /\ \E ok \in BOOLEAN :
       IF ok
         THEN cwd' = REPO /\ pc' = "status" /\ UNCHANGED fault
         ELSE pc' = "crashed" /\ fault' = "chdir" /\ UNCHANGED cwd
  /\ UNCHANGED <<script, fs, fs0, step, cmds, out, files_to_add, result, last, prev>>

\* lines 24-25
CheckStatus ==
  /\ script = GO
  /\ pc = "status"
  /\ out' = Append(out, StatusHeader)
  /\ \E o \in Outcomes : Invoke(StatusCmd, o, run_git_command(o), "branch")
  /\ UNCHANGED <<script, cwd, fs, fs0, step, files_to_add, result>>

\* lines 28-32
CreateBranch ==
  /\ script = GO
  /\ pc = "branch"
  /\ \E o \in Outcomes :
       LET r == run_git_command(o) IN
         /\ Invoke(BranchCmd, o, r, AfterBranch(r.ret))
         /\ out' = IF r.propagates
                     THEN Append(out, BranchHeader)
                     ELSE out \o <<BranchHeader, BranchMessage(r.ret)>>
  /\ UNCHANGED <<script, cwd, fs, fs0, step, files_to_add, result>>

\* line 33
FallbackCheckout ==
  /\ script = GO
  /\ pc = "fallback"
  /\ \E o \in Outcomes :
       LET r == run_git_command(o) IN Invoke(FallbackCmd, o, r, AfterFallback(r.ret))
  /\ UNCHANGED <<script, cwd, fs, fs0, step, out, files_to_add, result>>

\* The `if os.path.exists(...)` of a step and its header print.
StepCheck ==
  /\ script = GO
  /\ pc = "check"
  /\ step \in Steps
  /\ IF StepGate(step, fs)
       THEN /\ out' = Append(out, StepHeader(step))
            /\ pc' = IF step = 3 THEN "makedirs" ELSE "add"
            /\ UNCHANGED step
       ELSE /\ pc' = AfterStep(step)
            /\ step' = step + 1
            /\ UNCHANGED out
  /\ UNCHANGED <<script, cwd, fs, fs0, cmds, files_to_add, result, last, prev, fault>>

\* line 58: os.makedirs('.bash_profile.dir', exist_ok=True), outside any try.
Makedirs ==
  /\ script = GO
  /\ pc = "makedirs"
  /\ \E ok \in BOOLEAN :
       IF ok
         THEN fs' = fs \cup {PROFILEDIR} /\ pc' = "open" /\ UNCHANGED fault
         ELSE pc' = "crashed" /\ fault' = "makedirs" /\ UNCHANGED fs
  /\ UNCHANGED <<script, cwd, fs0, step, cmds, out, files_to_add, result, last, prev>>

\* lines 59-60: open('.bash_profile.dir/.gitkeep', 'w'), outside any try.
OpenGitkeep ==
  /\ script = GO
  /\ pc = "open"
  /\ \E ok \in BOOLEAN :
       IF ok
         THEN fs' = fs \cup {GITKEEP} /\ pc' = "add" /\ UNCHANGED fault
         ELSE pc' = "crashed" /\ fault' = "open" /\ UNCHANGED fs
  /\ UNCHANGED <<script, cwd, fs0, step, cmds, out, files_to_add, result, last, prev>>

\* The first runner call of a step (its result is discarded).
StepAdd ==
  /\ script = GO
  /\ pc = "add"
  /\ \E o \in Outcomes : Invoke(FirstCall(step), o, run_git_command(o), "commit")
  /\ UNCHANGED <<script, cwd, fs, fs0, step, out, files_to_add, result>>

\* The second runner call of a step (its result is discarded).
StepCommit ==
  /\ script = GO
  /\ pc = "commit"
  /\ \E o \in Outcomes : Invoke(SecondCall(step), o, run_git_command(o), AfterStep(step))
  /\ step' = step + 1
  /\ UNCHANGED <<script, cwd, fs, fs0, out, files_to_add, result>>

\* lines 99-102
ConfigCheck ==
  /\ script = GO
  /\ pc = "cfg_check"
  /\ out' = Append(out, ConfigHeader)
  /\ files_to_add' = ExistingOf(config_files, fs)
  /\ pc' = IF files_to_add' # <<>> THEN "cfg_add" ELSE "final_status"
  /\ UNCHANGED <<script, cwd, fs, fs0, step, cmds, result, last, prev, fault>>

\* line 103
ConfigAdd ==
  /\ script = GO
  /\ pc = "cfg_add"
  /\ \E o \in Outcomes :
       Invoke(ConfigAddCmd(files_to_add), o, run_git_command(o), "cfg_diff")
  /\ UNCHANGED <<script, cwd, fs, fs0, step, out, files_to_add, result>>

\* lines 105-106: subprocess.run called directly, outside any try.
ConfigDiff ==
  /\ script = GO
  /\ pc = "cfg_diff"
  /\ cmds' = Append(cmds, DiffCmd)
  /\ \E o \in Outcomes :
       IF o = RAISED
         THEN pc' = "crashed" /\ fault' = "diff" /\ UNCHANGED result
         ELSE /\ result' = o
              /\ pc' = IF HasStagedChanges(o) THEN "cfg_commit" ELSE "final_status"
              /\ UNCHANGED fault
  /\ UNCHANGED <<script, cwd, fs, fs0, step, out, files_to_add, last, prev>>

\* line 111
ConfigCommit ==
  /\ script = GO
  /\ pc = "cfg_commit"
  /\ \E o \in Outcomes : Invoke(ConfigCommitCmd, o, run_git_command(o), "final_status")
  /\ UNCHANGED <<script, cwd, fs, fs0, step, out, files_to_add, result>>

\* lines 114-115
FinalStatus ==
  /\ script = GO
  /\ pc = "final_status"
  /\ out' = Append(out, FinalHeader)
  /\ \E o \in Outcomes : Invoke(StatusCmd, o, run_git_command(o), "final_log")
  /\ UNCHANGED <<script, cwd, fs, fs0, step, files_to_add, result>>

\* line 116
FinalLog ==
  /\ script = GO
  /\ pc = "final_log"
  /\ \E o \in Outcomes : Invoke(LogCmd, o, run_git_command(o), "closing")
  /\ UNCHANGED <<script, cwd, fs, fs0, step, out, files_to_add, result>>

\* lines 118-120
Closing ==
  /\ script = GO
  /\ pc = "closing"
  /\ out' = out \o ClosingLines
  /\ pc' = "done"
  /\ UNCHANGED <<script, cwd, fs, fs0, step, cmds, files_to_add, result, last, prev, fault>>

\* run_git_commands.py line 8: os.chdir, outside any try.
RgcChdir ==
  /\ script = RGC
  /\ pc = "chdir"
  /\ \E ok \in BOOLEAN :
       IF ok
         THEN cwd' = REPO /\ pc' = "rgc_status" /\ UNCHANGED fault
         ELSE pc' = "crashed" /\ fault' = "chdir" /\ UNCHANGED cwd
  /\ UNCHANGED <<script, fs, fs0, step, cmds, out, files_to_add, result, last, prev>>

\* run_git_commands.py lines 25-29
RgcStatus ==
  /\ script = RGC
  /\ pc = "rgc_status"
  /\ out' = out \o RgcOpening
  /\ \E o \in Outcomes : Invoke(StatusCmd, o, execute_command(o), "rgc_branch")
  /\ UNCHANGED <<script, cwd, fs, fs0, step, files_to_add, result>>

\* run_git_commands.py line 32
RgcBranch ==
  /\ script = RGC
  /\ pc = "rgc_branch"
  /\ \E o \in Outcomes : Invoke(BranchCmd, o, execute_command(o), "rgc_show")
  /\ UNCHANGED <<script, cwd, fs, fs0, step, out, files_to_add, result>>

\* run_git_commands.py line 35
RgcShowBranch ==
  /\ script = RGC
  /\ pc = "rgc_show"
  /\ \E o \in Outcomes : Invoke(ShowBranchCmd, o, execute_command(o), "rgc_closing")
  /\ UNCHANGED <<script, cwd, fs, fs0, step, out, files_to_add, result>>

\* run_git_commands.py lines 37-41
RgcClosing ==
  /\ script = RGC
  /\ pc = "rgc_closing"
  /\ out' = out \o RgcClosingLines
  /\ pc' = "done"
  /\ UNCHANGED <<script, cwd, fs, fs0, step, cmds, files_to_add, result, last, prev, fault>>

Next ==
  \/ Chdir
  \/ CheckStatus
  \/ CreateBranch
  \/ FallbackCheckout
  \/ StepCheck
  \/ Makedirs
  \/ OpenGitkeep
  \/ StepAdd
  \/ StepCommit
  \/ ConfigCheck
  \/ ConfigAdd
  \/ ConfigDiff
  \/ ConfigCommit
  \/ FinalStatus
  \/ FinalLog
  \/ Closing
  \/ RgcChdir
  \/ RgcStatus
  \/ RgcBranch
  \/ RgcShowBranch
  \/ RgcClosing

Spec == Init /\ [][Next]_vars


(***************************************************************************)
(* Properties                                                              *)
(***************************************************************************)

IsPrefix(s, t) == Len(s) <= Len(t) /\ \A i \in 1..Len(s) : s[i] = t[i]

CommitCount(s) == Len(SelectSeq(s, LAMBDA c : c.op = "commit"))

\* The numbered step each add/commit command of steps 1-6 belongs to.
StepTable ==
  [c \in {AddCmd(k) : k \in Steps} \cup {CommitCmd(k) : k \in Steps} |->
      CHOOSE k \in Steps : c \in {AddCmd(k), CommitCmd(k)}]

\* The commit step a command belongs to: 1..6, 7 for the config-files step, 0 otherwise.
StepOf(c) ==
  IF c.op \in {"add", "commit"}
    THEN (IF c \in DOMAIN StepTable THEN StepTable[c] ELSE NumSteps + 1)
    ELSE IF c.op = "diff" THEN NumSteps + 1 ELSE 0

\* The add/commit commands of steps 1-6 among the commands issued.
StepCmds(s) == SelectSeq(s, LAMBDA c : StepOf(c) \in Steps)

\* The add/commit commands steps k..6 issue, as a function of the files alone.
RECURSIVE ExpectedSteps(_, _)
ExpectedSteps(k, files) ==
  IF k > NumSteps THEN <<>>
  ELSE (IF (IF k = 3 THEN PROFILEDIR \notin files ELSE StepPath(k) \in files)
          THEN <<AddCmd(k), CommitCmd(k)>> ELSE <<>>) \o ExpectedSteps(k + 1, files)

\* Positions after the numbered steps of a run that has not been ended by an exception.
PastSteps == {"cfg_check", "cfg_add", "cfg_diff", "cfg_commit", "final_status", "final_log", "closing", "done"}

PastConfig == {"final_status", "final_log", "closing", "done"}

\* The step just taken was a call of the runner.
RunnerCalled == Len(cmds') = Len(cmds) + 1 /\ cmds'[Len(cmds')].op # "diff"

----
\* C1 (as stated): in a run of git_operations.py that started with only
\* initialize.sh present and reached the end, the commands issued are the status
\* check, the branch creation (and the fallback checkout when it failed), the
\* add and commit of initialize.sh, the final status and log: step 3 is
\* skipped and exactly one commit command is issued.
C1_OneCommitOnly ==
  (script = GO /\ fs0 = {INITSH} /\ pc = "done") =>
     /\ cmds \in { <<StatusCmd, BranchCmd, AddCmd(4), CommitCmd(4), StatusCmd, LogCmd>>,
                   <<StatusCmd, BranchCmd, FallbackCmd, AddCmd(4), CommitCmd(4), StatusCmd, LogCmd>> }
     /\ CommitCount(cmds) = 1

C1_Expected ==
  { <<StatusCmd, BranchCmd, AddCmd(3), CommitCmd(3), AddCmd(4), CommitCmd(4), StatusCmd, LogCmd>>,
    <<StatusCmd, BranchCmd, FallbackCmd, AddCmd(3), CommitCmd(3), AddCmd(4), CommitCmd(4), StatusCmd, LogCmd>> }

\* C1 (amended): in a run of git_operations.py that started with only
\* initialize.sh present, step 3 is not skipped (.bash_profile.dir is absent):
\* the commands issued are always a prefix of status, branch creation
\* (fallback checkout if it failed), add and commit of .bash_profile.dir/,
\* add and commit of initialize.sh, final status, log; a run that reached the
\* end issued all of them, so exactly two commit commands, and created
\* .bash_profile.dir and its .gitkeep.
C1_TwoCommits ==
  (script = GO /\ fs0 = {INITSH}) =>
     /\ \E e \in C1_Expected : IsPrefix(cmds, e)
     /\ pc = "done" => /\ cmds \in C1_Expected
                       /\ CommitCount(cmds) = 2
                       /\ {PROFILEDIR, GITKEEP} \subseteq fs

C1_Witness ==
  /\ script = GO /\ fs0 = {INITSH} /\ pc = "done"
  /\ CommitCmd(3) \in Range(cmds) /\ CommitCmd(4) \in Range(cmds)

----
\* C2: no error is fatal - a run is never ended by an exception before the
\* final status block; the scripts being finite straight-line sequences,
\* this is what "always reaches the end" comes to.
C2_NoErrorFatal == pc # "crashed"

----
----
----
----
\* C6 (as stated): two runner calls whose child processes ended with
\* different exit codes return different results.
C6_ResultsDiffer ==
  (prev.cmd # NoCmd /\ prev.code # RAISED /\ last.code # RAISED /\ prev.code # last.code) =>
     prev.ret # last.ret

\* C6 (amended): the runner returns a boolean that is True exactly when the
\* child's exit code is 0; every non-zero exit code, and an exception, give
\* False, so two different non-zero codes give the same result.
C6_ResultIsZeroTest ==
  /\ last.cmd # NoCmd => last.ret = (last.code = 0)
  /\ prev.cmd # NoCmd => prev.ret = (prev.code = 0)

C6_Witness ==
  /\ prev.cmd # NoCmd
  /\ prev.code = 1 /\ last.code = 2
  /\ prev.ret = last.ret

----
\* C7: ordering of the commands of git_operations.py.  No command is issued
\* before the directory change; the first command is git status and the
\* second the branch creation; checkouts are only at positions 2 and 3; every
\* add/commit comes after the branch commands and before the final status
\* and log; commands of steps 1-6 and of the config-files step appear in
\* increasing step order; a step's commit directly follows its git add (the
\* config commit follows the add and the staged-changes check); git log is
\* the last command and follows git status, and a run that reached the end
\* ends with git status, git log.
C7_Ordering ==
  script = GO =>
    LET n == Len(cmds)
        rank == [i \in 1..n |-> StepOf(cmds[i])]
        \* position of the branch commands, of the add/commit commands, of the closing commands
        branching == {i \in 1..n : cmds[i].op = "checkout"}
        staging == {i \in 1..n : cmds[i].op \in {"add", "commit"}}
        closing == {i \in 2..n : cmds[i].op \in {"status", "log"}}
        \* the step numbers of the commands of steps 1-6 and of the config-files step, in order
        stepped == SelectSeq([i \in 1..n |-> rank[i]], LAMBDA r : r > 0)
    IN
    /\ n >= 1 => (cwd = REPO /\ cmds[1] = StatusCmd)
    /\ n >= 2 => cmds[2] = BranchCmd
    /\ branching \subseteq {2, 3}
    /\ \A i \in staging :
         /\ i > 2
         /\ \A j \in branching : j < i
         /\ \A j \in closing : i < j
         /\ (cmds[i].op = "commit" /\ rank[i] \in Steps) => cmds[i - 1] = AddCmd(rank[i])
         /\ cmds[i] = ConfigCommitCmd =>
               (cmds[i - 1] = DiffCmd /\ cmds[i - 2].op = "add" /\ rank[i - 2] = NumSteps + 1)
    /\ \A i \in 1..(Len(stepped) - 1) : stepped[i] <= stepped[i + 1]
    /\ \A i \in closing : cmds[i].op = "log" => (i = n /\ cmds[i - 1] = StatusCmd)
    /\ pc = "done" =>
         (cmds[n - 1] = StatusCmd /\ cmds[n] = LogCmd)

C7_Witness ==
  /\ script = GO /\ pc = "done"
  /\ fs0 = TestedPaths \ {PROFILEDIR}
  /\ Len(cmds) = 20
  /\ ConfigCommitCmd \in Range(cmds)

----
\* C8: the add/commit commands of steps 1-6 are a function of the file
\* checks alone: whatever the exit statuses, the step commands issued so far
\* are a prefix of the list the files determine, and once the steps are over
\* they are exactly that list.
C8_StepsIgnoreStatus ==
  script = GO =>
    LET issued == StepCmds(cmds)
        expected == ExpectedSteps(1, fs0)
    IN /\ IsPrefix(issued, expected)
       /\ pc \in PastSteps => issued = expected

C8_Witness ==
  /\ script = GO /\ pc = "check" /\ step = 2
  /\ FallbackCmd \in Range(cmds)
  /\ prev.cmd = AddCmd(1) /\ prev.code = 1
  /\ last.cmd = CommitCmd(1) /\ last.code = 2

----
\* C9: config-files step.  Once the step is over, the config commit has
\* been issued exactly when some config file exists and git diff --cached
\* --quiet returned a non-zero status, and the staged-changes check was made
\* whenever a config file exists, whatever the git add returned; the git add
\* of the step names exactly the existing config files, in list order; when
\* none exists the step issues no add, no diff and no commit.
C9_ConfigStep ==
  script = GO =>
    /\ pc \in PastConfig =>
         /\ ConfigCommitCmd \in Range(cmds) <=>
               (Range(config_files) \cap fs # {} /\ result \in ExitCodes /\ result # 0)
         /\ Range(config_files) \cap fs # {} => DiffCmd \in Range(cmds)
    /\ \A i \in 1..Len(cmds) :
         (cmds[i].op = "add" /\ StepOf(cmds[i]) = NumSteps + 1) =>
             cmds[i].arg = SelectSeq(config_files, LAMBDA f : f \in fs)
    /\ Range(config_files) \cap fs = {} =>
         \A i \in 1..Len(cmds) : StepOf(cmds[i]) # NumSteps + 1
    /\ pc = "cfg_diff" => cmds[Len(cmds)] = ConfigAddCmd(files_to_add)

C9_Witness ==
  /\ script = GO /\ pc = "done"
  /\ Len(files_to_add) = 2
  /\ result = 1
  /\ ConfigCommitCmd \in Range(cmds)

----
\* C10: closing report.  A run of git_operations.py that reached the end
\* has printed "Operation complete!" and "Branch created and commits made
\* successfully!", whatever failed or was skipped; "Branch created
\* successfully!" is printed by the branch creation exactly when git checkout
\* -b returned 0 and by no other statement, and when it has been printed the
\* fallback checkout is never issued.
C10_ClosingReport ==
  /\ []((script = GO /\ pc = "done") =>
          (ClosingLines[1] \in Range(out) /\ ClosingLines[2] \in Range(out)))
  /\ []((script = GO /\ BranchOK \in Range(out)) =>
          (FallbackCmd \notin Range(cmds) /\ pc # "fallback"))
  /\ [][ /\ (script = GO /\ pc = "branch") => (BranchOK \in Range(out') <=> last'.code = 0)
         /\ (script = GO /\ pc # "branch") => (BranchOK \in Range(out') <=> BranchOK \in Range(out)) ]_vars

C10_Witness ==
  /\ script = GO /\ pc = "done"
  /\ fs0 = {PROFILEDIR}
  /\ BranchOK \notin Range(out)
  /\ CommitCount(cmds) = 0
  /\ ~prev.ret /\ ~last.ret

====
